---- MODULE Spec2Model ----
(***************************************************************************)
(* The node-graph dataflow engine of the Atlas DearPyGui editor:           *)
(*   AtlasNodeEditor (atlas_dearpygui_gui/atlas_node_editor.py): node      *)
(*   list, link list, the linker callback, the linearizer                  *)
(*   _sort_node_graph, delete, New Dashboard, export and import;           *)
(*   update_node_info / initialize_default_view (atlas_dearpygui_gui/      *)
(*   main.py): the execution cycle; the node kinds under atlas_nodes/.     *)
(*                                                                         *)
(* Tags are the code's colon-joined strings, kept as tuples:               *)
(*   node tag  "id:kind"            is <<id, kind>>                        *)
(*   port tag  "id:kind:type:name"  is <<id, kind, type, name>>            *)
(*   link      [source, destination] is <<source port, destination port>>  *)
(* An OrderedDict is the sequence of its (key, value) items.               *)
(***************************************************************************)
EXTENDS Integers, Sequences, FiniteSets, TLC

\* ---------------------------------------------------------------- bounds
\* Cap on the node id counter of one session (guards of the creating actions).
MaxNodeId == 3
\* Most nodes of a dashboard file offered to the import dialog.
MaxSnapNodes == 2
\* Most nodes and most links of the graphs handed to the linearizer (SpecSort).
MaxSortNodes == 3
MaxSortLinks == 3
\* Cap on the node id counter while the refresh loop runs (SpecCycle).
MaxCycleNodeId == 2
\* Cap on the node id counter while any two attributes may be linked
\* (SpecLinkAny).
MaxLinkNodeId == 2
\* Most links of the link list in SpecLinkAny.
MaxAnyLinks == 2
\* Most nodes of a dashboard file in SpecGhost.
MaxGhostFileNodes == 3
\* Nodes and most links of the cycle-free graphs handed to the linearizer
\* (SpecDag).
MaxDagNodes == 4
MaxDagLinks == 4

\* ------------------------------------------------------- python helpers
\* A Python value with its type: '1' (str) and 1 (int) are different values.
StrOf(v) == [t |-> "str", v |-> v]
IntOf(v) == [t |-> "int", v |-> v]
\* Python's ==: values of different types are unequal, never an error.
PyEq(a, b) == a.t = b.t /\ a.v = b.v

\* tag.split(':')[:2] joined again: the node a port belongs to.
NodeOfPort(port) == <<port[1], port[2]>>
\* tag.split(':')[2]: the PortType of a port.
TypeOfPort(port) == port[3]

RECURSIVE SeqToSet(_)
SeqToSet(s) == IF s = <<>> THEN {} ELSE {Head(s)} \cup SeqToSet(Tail(s))

\* list.remove(x): drops the first occurrence (the caller checks membership).
RECURSIVE ListRemove(_, _)
ListRemove(s, x) ==
    IF s = <<>> THEN <<>>
    ELSE IF Head(s) = x THEN Tail(s)
    ELSE <<Head(s)>> \o ListRemove(Tail(s), x)

\* 1-based position of the first item of an items list with this key, 0 if none.
RECURSIVE KeyIndexFrom(_, _, _)
KeyIndexFrom(items, key, from) ==
    IF from > Len(items) THEN 0
    ELSE IF items[from][1] = key THEN from
    ELSE KeyIndexFrom(items, key, from + 1)

Swap(s, i, j) == [s EXCEPT ![i] = s[j], ![j] = s[i]]

\* ------------------------------------------------------ _sort_node_graph
\* Variant: a destination met for the first time goes to the front of both
\* dicts.
RECURSIVE OrganizeLinksNewestFirst(_, _, _)
OrganizeLinksNewestFirst(links, ids, conn) ==
    IF links = <<>> THEN [ids |-> ids, conn |-> conn]
    ELSE LET source == Head(links)[1]
             destination == Head(links)[2]
             node_name == NodeOfPort(destination)
             i == KeyIndexFrom(ids, destination[1], 1)
             k == KeyIndexFrom(conn, node_name, 1)
             ids2 == IF i = 0 THEN <<<<destination[1], <<source[1]>>>>>> \o ids
                     ELSE [ids EXCEPT ![i] = <<destination[1], Append(ids[i][2], source[1])>>]
             conn2 == IF k = 0 THEN <<<<node_name, <<Head(links)>>>>>> \o conn
                      ELSE [conn EXCEPT ![k] = <<node_name, Append(conn[k][2], Head(links))>>]
         IN  OrganizeLinksNewestFirst(Tail(links), ids2, conn2)

\* First loop of _sort_node_graph: node_id_dict (destination id -> list of
\* source ids) and node_connection_dict (destination node -> its links), both
\* in first-link-discovery order.
RECURSIVE OrganizeLinks(_, _, _)
OrganizeLinks(links, ids, conn) ==
    IF links = <<>> THEN [ids |-> ids, conn |-> conn]
    ELSE LET source == Head(links)[1]
             destination == Head(links)[2]
             source_id == source[1]
             destination_id == destination[1]
             node_name == NodeOfPort(destination)
             i == KeyIndexFrom(ids, destination_id, 1)
             k == KeyIndexFrom(conn, node_name, 1)
             ids2 == IF i = 0 THEN Append(ids, <<destination_id, <<source_id>>>>)
                     ELSE [ids EXCEPT ![i] = <<destination_id, Append(ids[i][2], source_id)>>]
             conn2 == IF k = 0 THEN Append(conn, <<node_name, <<Head(links)>>>>)
                      ELSE [conn EXCEPT ![k] = <<node_name, Append(conn[k][2], Head(links))>>]
         IN  OrganizeLinks(Tail(links), ids2, conn2)

\* The body of `for check_id in node_id_list[index][1]` of the swap loop, over
\* the predecessor list fetched when the while iteration began.  index is the
\* code's 0-based index; st = [ids, conn, swap_flag].
RECURSIVE SwapChecks(_, _, _)
SwapChecks(check_ids, index, st) ==
    IF check_ids = <<>> THEN st
    ELSE LET check_index == KeyIndexFrom(st.ids, Head(check_ids), index + 2)
             st2 == IF check_index = 0 THEN st
                    ELSE [ids |-> Swap(st.ids, index + 1, check_index),
                          conn |-> Swap(st.conn, index + 1, check_index),
                          swap_flag |-> TRUE]
         IN  SwapChecks(Tail(check_ids), index, st2)

\* Variant: the loop walks the list and swaps nothing.
SwapIterationNoSwap(w) ==
    [ids |-> w.ids, conn |-> w.conn, index |-> w.index + 1]

\* One iteration of `while index < len(node_id_list)` of the swap loop.
SwapIteration(w) ==
    LET r == SwapChecks(w.ids[w.index + 1][2], w.index,
                        [ids |-> w.ids, conn |-> w.conn, swap_flag |-> FALSE])
    IN  [ids |-> r.ids, conn |-> r.conn,
         index |-> IF r.swap_flag THEN w.index ELSE w.index + 1]

\* `for index, node_id_name in enumerate(node_list)`: the scan rebinds the
\* while loop's index; node_id is a str (from split) and check_id an int.
\* Result: [index, found, name].
RECURSIVE EnumerateNodeList(_, _, _, _)
EnumerateNodeList(node_list, pos, check_id, index) ==
    IF pos > Len(node_list) THEN [index |-> index, found |-> FALSE, name |-> <<>>]
    ELSE IF PyEq(StrOf(node_list[pos][1]), IntOf(check_id))
         THEN [index |-> pos - 1, found |-> TRUE, name |-> node_list[pos]]
         ELSE EnumerateNodeList(node_list, pos + 1, check_id, pos - 1)

\* dict[key] = value on an items list.
DictSet(items, key, value) ==
    LET i == KeyIndexFrom(items, key, 1)
    IN  IF i = 0 THEN Append(items, <<key, value>>)
        ELSE [items EXCEPT ![i] = <<key, value>>]

\* The body of `for check_id in node_id_list[index][1]` of the second loop;
\* st = [index, unfinded].
RECURSIVE FindChecks(_, _, _, _)
FindChecks(check_ids, ids, node_list, st) ==
    IF check_ids = <<>> THEN st
    ELSE LET find_flag == KeyIndexFrom(ids, Head(check_ids), 1) # 0
             e == EnumerateNodeList(node_list, 1, Head(check_ids), st.index)
             st2 == IF find_flag THEN st
                    ELSE [index |-> e.index,
                          unfinded |-> IF e.found
                                       THEN DictSet(st.unfinded, Head(check_ids), e.name)
                                       ELSE st.unfinded]
         IN  FindChecks(Tail(check_ids), ids, node_list, st2)

\* One iteration of the second `while index < len(node_id_list)` loop.
FindIteration(f, ids, node_list) ==
    LET r == FindChecks(ids[f.index + 1][2], ids, node_list, f)
    IN  [index |-> r.index + 1, unfinded |-> r.unfinded]

\* `for unfinded_value in unfinded_id_dict.values(): insert(0, (value, []))`.
RECURSIVE InsertUnfinded(_, _)
InsertUnfinded(unfinded, conn) ==
    IF unfinded = <<>> THEN conn
    ELSE InsertUnfinded(Tail(unfinded), <<<<Head(unfinded)[2], <<>>>>>> \o conn)

\* The swap loop run from w; seen holds the loop states met so far.  The
\* loop is deterministic: meeting a state again means it never ends.
RECURSIVE RunSwapLoop(_, _)
RunSwapLoop(w, seen) ==
    IF w.index >= Len(w.ids) THEN [returns |-> TRUE, w |-> w]
    ELSE IF w \in seen THEN [returns |-> FALSE, w |-> w]
    ELSE RunSwapLoop(SwapIteration(w), seen \cup {w})

\* The second loop run from f, in the same way.
RECURSIVE RunFindLoop(_, _, _, _)
RunFindLoop(f, ids, node_list, seen) ==
    IF f.index >= Len(ids) THEN [returns |-> TRUE, f |-> f]
    ELSE IF f \in seen THEN [returns |-> FALSE, f |-> f]
    ELSE RunFindLoop(FindIteration(f, ids, node_list), ids, node_list, seen \cup {f})

\* A call _sort_node_graph(node_list, node_link_list): whether it returns,
\* and the items of the OrderedDict it returns.
SortCall(node_list, node_link_list) ==
    LET o == OrganizeLinks(node_link_list, <<>>, <<>>)
        sw == RunSwapLoop([ids |-> o.ids, conn |-> o.conn, index |-> 0], {})
        fl == RunFindLoop([index |-> 0, unfinded |-> <<>>], sw.w.ids, node_list, {})
    IN  IF sw.returns /\ fl.returns
        THEN [returns |-> TRUE, items |-> InsertUnfinded(fl.f.unfinded, sw.w.conn)]
        ELSE [returns |-> FALSE, items |-> <<>>]

_sort_node_graph(node_list, node_link_list) ==
    SortCall(node_list, node_link_list).items

\* The ExecutionOrder an items list stands for: its keys, in order.
RECURSIVE Keys(_)
Keys(items) == IF items = <<>> THEN <<>> ELSE <<Head(items)[1]>> \o Keys(Tail(items))

\* ------------------------------------------------------------ node kinds
\* The node kinds the editor registers from atlas_nodes/ (node_tag of each).
Kinds == {"DefaultDataset", "JSONImport", "LineChart"}

\* The linkable attributes add_node creates, as <<type, name>>.
OutputPorts(kind) ==
    IF kind = "DefaultDataset" THEN {<<"TimeSeries", "Output01">>}
    ELSE IF kind = "JSONImport"
         THEN {<<"TimeSeries", "Output01">>, <<"Chart", "Output02">>,
               <<"Metadata", "Output03">>}
         ELSE {<<"Chart", "Output01">>}

InputPorts(kind) ==
    IF kind = "LineChart"
    THEN {<<"TimeSeries", "Input01">>, <<"Int", "Input02">>, <<"Int", "Input03">>}
    ELSE {}

PortTag(node, p) == <<node[1], node[2], p[1], p[2]>>

\* Number of plotted lines with values in data/default_dataset.json.
DefaultDatasetSeries == 1

\* atlas_config["default_dataset"]: the two flags the engine reads.
Configs == [enabled : BOOLEAN, auto_load : BOOLEAN]

NoPayload == [type |-> "None", series |-> 0]

VARIABLES
    _node_id,              \* AtlasNodeEditor._node_id
    _node_list,            \* AtlasNodeEditor._node_list
    _node_link_list,       \* AtlasNodeEditor._node_link_list
    _node_connection_dict, \* AtlasNodeEditor._node_connection_dict (items)
    _atlas_config,         \* AtlasNodeEditor._atlas_config
    dpg_nodes,             \* node items alive in the DearPyGui node editor
    _dataset_loaded,       \* DefaultDataset kind object: _dataset_loaded
    _file_path,            \* JSONImport kind object: _file_path
    _loaded_data,          \* JSONImport kind object: _loaded_data is set
    phase,                 \* where main() stands: "startup" until it has run
                           \* initialize_default_view, "closing" and
                           \* "terminated" in its cleanup
    node_data_dict,        \* async_main / main: node_data_dict
    node_result_dict,      \* async_main / main: node_result_dict
    upd,                   \* update_node_info: where the running cycle stands
                           \* (errors: history, the nodes whose update raised)
    cycle_log,             \* history: the nodes updated so far in this cycle
    used_ids,              \* history: every id a node item was created with
    last,                  \* history: the last operation and its arguments
    unuse_async_draw,      \* main(): args.unuse_async_draw (--unuse_async_draw)
    _terminate_flag,       \* AtlasNodeEditor._terminate_flag
    sort                   \* one call of _sort_node_graph, step by step (SpecSort)

vars == <<_node_id, _node_list, _node_link_list, _node_connection_dict,
          _atlas_config, dpg_nodes, _dataset_loaded, _file_path, _loaded_data,
          phase, node_data_dict, node_result_dict, upd, cycle_log, used_ids, last,
          unuse_async_draw, _terminate_flag, sort>>

\* The variables of the editor and of its refresh loop.
editor_vars == <<_node_id, _node_list, _node_link_list, _node_connection_dict,
                 _atlas_config, dpg_nodes, _dataset_loaded, _file_path, _loaded_data,
                 phase, node_data_dict, node_result_dict, upd, cycle_log, used_ids,
                 last, unuse_async_draw, _terminate_flag>>

\* The variables of the execution cycle.
cycle_vars == <<node_data_dict, node_result_dict, upd, cycle_log>>

\* An empty dict, as a function.
EmptyDict == [n \in {} |-> NoPayload]

\* update_node_info is not running.
Idle == [pc |-> "idle", i |-> 0, live |-> TRUE, list |-> <<>>, conn |-> <<>>,
         errors |-> <<>>]

Op(op, a, b) == [op |-> op, a |-> a, b |-> b]

\* No call of _sort_node_graph is being followed.
NoSort == [pc |-> "none"]

\* AtlasNodeEditor.__init__ and the kind objects' __init__.
InitObjects ==
    /\ _node_id = 0
    /\ _node_list = <<>>
    /\ _node_link_list = <<>>
    /\ _node_connection_dict = <<>>
    /\ _atlas_config \in Configs
    /\ dpg_nodes = {}
    /\ _dataset_loaded = FALSE
    /\ _file_path = ""
    /\ _loaded_data = FALSE
    /\ phase = "startup"
    /\ node_data_dict = EmptyDict
    /\ node_result_dict = EmptyDict
    /\ upd = Idle
    /\ cycle_log = <<>>
    /\ used_ids = {}
    /\ last = [op |-> "init", a |-> <<>>, b |-> <<>>]
    /\ _terminate_flag = FALSE

\* main() started without --unuse_async_draw (store_true, default False).
InitEditor == InitObjects /\ unuse_async_draw = FALSE

Init == InitEditor /\ sort = NoSort

\* main() started with or without --unuse_async_draw.
InitRefresh == InitObjects /\ unuse_async_draw \in BOOLEAN /\ sort = NoSort

\* The mode_async argument main() gives update_node_info.
mode_async == ~unuse_async_draw

\* `self._node_list = ...` binds the attribute to a new list object: a cycle
\* that is iterating the old object keeps iterating the old object.
Rebound(u, old_list) ==
    IF u.pc = "run" /\ u.live THEN [u EXCEPT !.live = FALSE, !.list = old_list] ELSE u

\* ---------------------------------------------------------------- add node
\* Variant: add_node never loads the sample data.
DatasetLoadedAfterAddNoLoad(kind, config, loaded) == loaded

\* Node.add_node of a kind: the kind object's state after it.  Only
\* DefaultDataset keeps state: with auto_load it loads the sample data
\* (data/default_dataset.json ships with the package).
DatasetLoadedAfterAdd(kind, config, loaded) ==
    IF kind = "DefaultDataset" /\ config.auto_load THEN TRUE ELSE loaded

\* _callback_add_node: the id the new node gets.
NextNodeId(node_id) == node_id + 1

_callback_add_node(kind) ==
    /\ UNCHANGED <<sort, unuse_async_draw, _terminate_flag>>
    /\ phase = "running"
    /\ _node_id < MaxNodeId
    /\ LET id == NextNodeId(_node_id)
           tag_name == <<id, kind>>
       IN  /\ _node_id' = id
           /\ dpg_nodes' = dpg_nodes \cup {tag_name}
           /\ _dataset_loaded' = DatasetLoadedAfterAdd(kind, _atlas_config, _dataset_loaded)
           /\ _node_list' = Append(_node_list, tag_name)
           /\ used_ids' = used_ids \cup {id}
           /\ last' = Op("add_node", tag_name, <<>>)
    /\ UNCHANGED <<_node_link_list, _node_connection_dict, _atlas_config,
                   _file_path, _loaded_data, phase>>
    /\ UNCHANGED cycle_vars

\* ------------------------------------------------------------------- link
\* Variant: the handler keeps the dict it has.
ResortSkipped(node_list, node_link_list) ==
    UNCHANGED <<_node_connection_dict, phase>>

\* `self._node_connection_dict = self._sort_node_graph(...)`, the last state
\* change of a handler.  A call that never returns leaves the dict as it was
\* and the callback thread inside the handler for good: no later callback runs.
Resort(node_list, node_link_list) ==
    LET c == SortCall(node_list, node_link_list)
    IN  /\ _node_connection_dict' = IF c.returns THEN c.items ELSE _node_connection_dict
        /\ phase' = IF c.returns THEN phase ELSE "hung"

\* Variant: the duplicate scan never raises the flag.
DuplicateFlagNeverSet(links, destination) == FALSE

\* `for node_link in self._node_link_list: if destination == node_link[1]`.
DuplicateFlag(links, destination) ==
    \E i \in 1..Len(links) : links[i][2] = destination

\* Variant: the linker without its PortType comparison.
LinkListAfterUntyped(links, source, destination) ==
    IF Len(links) = 0 THEN Append(links, <<source, destination>>)
    ELSE IF ~DuplicateFlag(links, destination)
         THEN Append(links, <<source, destination>>)
         ELSE links

\* Variant: a link to a bound input replaces the link that binds it.
RECURSIVE DropDestination(_, _)
DropDestination(links, destination) ==
    IF links = <<>> THEN <<>>
    ELSE IF Head(links)[2] = destination THEN DropDestination(Tail(links), destination)
    ELSE <<Head(links)>> \o DropDestination(Tail(links), destination)

LinkListAfterReplacing(links, source, destination) ==
    IF TypeOfPort(source) = TypeOfPort(destination)
    THEN Append(DropDestination(links, destination), <<source, destination>>)
    ELSE links

\* _callback_link: the link list after an attempt source -> destination.
LinkListAfter(links, source, destination) ==
    IF TypeOfPort(source) = TypeOfPort(destination)
    THEN IF Len(links) = 0 THEN Append(links, <<source, destination>>)
         ELSE IF ~DuplicateFlag(links, destination)
              THEN Append(links, <<source, destination>>)
              ELSE links
    ELSE links

\* The attributes a user can drag a link between: output and input
\* attributes of the node items on the canvas.
CanvasOutputs == UNION {{PortTag(n, p) : p \in OutputPorts(n[2])} : n \in dpg_nodes}
CanvasInputs == UNION {{PortTag(n, p) : p \in InputPorts(n[2])} : n \in dpg_nodes}

\* Every linkable attribute on the canvas.  _callback_link takes the two
\* aliases of data as they come and reads only their PortType field: nothing
\* in the handler looks at the attribute_type (input or output) of either.
CanvasAttributes == CanvasOutputs \cup CanvasInputs

\* The attribute_type a port was created with by its kind's add_node.
DirectionOfPort(port) ==
    IF <<port[3], port[4]>> \in OutputPorts(port[2]) THEN "Output"
    ELSE IF <<port[3], port[4]>> \in InputPorts(port[2]) THEN "Input"
    ELSE "Static"

\* History only: which case of the linker an attempt falls in, from the
\* link list before it.
LinkCase(links, source, destination) ==
    IF TypeOfPort(source) # TypeOfPort(destination) THEN <<"type_mismatch">>
    ELSE IF \E i \in 1..Len(links) : links[i][2] = destination THEN <<"input_bound">>
    ELSE <<"input_free">>

\* What a call of _callback_link hands its caller: the method has no return
\* statement and no raise, whatever branch the attempt takes (the debug print
\* shows the lists after accepted and rejected attempts alike).
LinkResult(links, source, destination) == "None"

_callback_link(source, destination) ==
    /\ UNCHANGED <<sort, unuse_async_draw, _terminate_flag>>
    /\ phase = "running"
    /\ _node_link_list' = LinkListAfter(_node_link_list, source, destination)
    /\ Resort(_node_list, _node_link_list')
    /\ last' = Op("link", LinkCase(_node_link_list, source, destination),
                  <<LinkResult(_node_link_list, source, destination)>>)
    /\ UNCHANGED <<_node_id, _node_list, _atlas_config, dpg_nodes, _dataset_loaded,
                   _file_path, _loaded_data, used_ids>>
    /\ UNCHANGED cycle_vars

\* -------------------------------------------------------- kind callbacks
\* DefaultDataset.close: the kind object forgets its data.
\* LineChart.close and JSONImport.close do nothing.
DatasetLoadedAfterClose(kind, loaded) ==
    IF kind = "DefaultDataset" THEN FALSE ELSE loaded

\* DefaultDataset._load_sample_data from the node's "Load Sample Data" button.
_load_sample_data ==
    /\ UNCHANGED <<sort, unuse_async_draw, _terminate_flag>>
    /\ phase = "running"
    /\ \E n \in dpg_nodes : n[2] = "DefaultDataset"
    /\ _dataset_loaded' = TRUE
    /\ last' = Op("load_sample_data", <<>>, <<>>)
    /\ UNCHANGED <<_node_id, _node_list, _node_link_list, _node_connection_dict,
                   _atlas_config, dpg_nodes, _file_path, _loaded_data, phase, used_ids>>
    /\ UNCHANGED cycle_vars

\* JSONImport._callback_file_select: remembers the path and loads the file;
\* _load_json_file leaves _loaded_data None when reading or parsing fails.
_callback_file_select(load_ok) ==
    /\ UNCHANGED <<sort, unuse_async_draw, _terminate_flag>>
    /\ phase = "running"
    /\ \E n \in dpg_nodes : n[2] = "JSONImport"
    /\ _file_path' = "data.json"
    /\ _loaded_data' = load_ok
    /\ last' = Op("file_select", <<>>, <<>>)
    /\ UNCHANGED <<_node_id, _node_list, _node_link_list, _node_connection_dict,
                   _atlas_config, dpg_nodes, _dataset_loaded, phase, used_ids>>
    /\ UNCHANGED cycle_vars

\* ------------------------------------------------------------ delete key
NoSel == <<>>

\* Variant: the cascade removes only the links that end on the deleted node.
RECURSIVE CascadeLinksInboundOnly(_, _, _)
CascadeLinksInboundOnly(copy_node_link_list, links, node_id_name) ==
    IF copy_node_link_list = <<>> THEN links
    ELSE LET link_info == Head(copy_node_link_list)
             hit == NodeOfPort(link_info[2]) = node_id_name
         IN  CascadeLinksInboundOnly(Tail(copy_node_link_list),
                                     IF hit THEN ListRemove(links, link_info) ELSE links,
                                     node_id_name)

\* The loop over copy_node_link_list of _callback_mv_key_del: every link with
\* an endpoint on the deleted node is removed from the link list.
RECURSIVE CascadeLinks(_, _, _)
CascadeLinks(copy_node_link_list, links, node_id_name) ==
    IF copy_node_link_list = <<>> THEN links
    ELSE LET link_info == Head(copy_node_link_list)
             hit == \/ NodeOfPort(link_info[1]) = node_id_name
                    \/ NodeOfPort(link_info[2]) = node_id_name
         IN  CascadeLinks(Tail(copy_node_link_list),
                          IF hit THEN ListRemove(links, link_info) ELSE links,
                          node_id_name)

\* _callback_mv_key_del with the first selected node and the first selected
\* link (NoSel: none selected).  list.remove raises ValueError for a node that
\* is not in _node_list, after close() has run; the handler ends there.
\* A selected link that the cascade has removed is gone from the list when
\* the link part runs: DearPyGui either no longer reports it as selected
\* (a frame was drawn since) and the part is skipped, or still reports it and
\* the part raises (the link's item is gone, list.remove finds no such
\* link); the handler ends there.
_callback_mv_key_del(sel_node, sel_link) ==
    /\ UNCHANGED <<sort, unuse_async_draw, _terminate_flag>>
    /\ phase = "running"
    /\ sel_node # NoSel \/ sel_link # NoSel
    /\ LET node_part == sel_node # NoSel
           raised == node_part /\ sel_node \notin SeqToSet(_node_list)
           removed == node_part /\ ~raised
           nodes1 == IF removed THEN ListRemove(_node_list, sel_node) ELSE _node_list
           links1 == IF removed
                     THEN CascadeLinks(_node_link_list, _node_link_list, sel_node)
                     ELSE _node_link_list
           sort1 == SortCall(nodes1, links1)
           hung1 == removed /\ ~sort1.returns
           conn1 == IF removed /\ ~hung1 THEN sort1.items ELSE _node_connection_dict
           link_sel == ~raised /\ ~hung1 /\ sel_link # NoSel
           link_part == link_sel /\ sel_link \in SeqToSet(links1)
           link_gone == link_sel /\ sel_link \notin SeqToSet(links1)
           outcomes == IF raised THEN {<<"raised", "node">>}
                       ELSE IF link_gone THEN {<<"ok">>, <<"raised", "link">>}
                       ELSE {<<"ok">>}
           links2 == IF link_part THEN ListRemove(links1, sel_link) ELSE links1
           sort2 == SortCall(nodes1, links2)
           hung2 == link_part /\ ~sort2.returns
       IN  /\ _dataset_loaded' = IF node_part
                                 THEN DatasetLoadedAfterClose(sel_node[2], _dataset_loaded)
                                 ELSE _dataset_loaded
           /\ _node_list' = nodes1
           /\ _node_link_list' = links2
           /\ _node_connection_dict' = IF link_part /\ ~hung2 THEN sort2.items ELSE conn1
           /\ dpg_nodes' = IF removed /\ ~hung1 THEN dpg_nodes \ {sel_node} ELSE dpg_nodes
           /\ phase' = IF hung1 \/ hung2 THEN "hung" ELSE phase
           /\ \E outcome \in outcomes : last' = Op("key_del", <<>>, outcome)
    /\ UNCHANGED <<_node_id, _atlas_config, _file_path, _loaded_data, used_ids>>
    /\ UNCHANGED cycle_vars

\* ---------------------------------------------------------- new dashboard
\* Variant: New Dashboard restarts the counter.
NodeIdAfterNewDashboardReset(node_id) == 0

\* The node id counter after New Dashboard: the handler does not touch it.
NodeIdAfterNewDashboard(node_id) == node_id

_callback_new_dashboard ==
    /\ UNCHANGED <<sort, unuse_async_draw, _terminate_flag>>
    /\ phase = "running"
    /\ _dataset_loaded' = IF \E i \in 1..Len(_node_list) : _node_list[i][2] = "DefaultDataset"
                          THEN FALSE ELSE _dataset_loaded
    /\ _node_list' = <<>>
    /\ _node_link_list' = <<>>
    /\ _node_connection_dict' = <<>>
    /\ dpg_nodes' = {}
    /\ _node_id' = NodeIdAfterNewDashboard(_node_id)
    /\ last' = Op("new_dashboard", <<>>, <<>>)
    /\ UNCHANGED <<_atlas_config, _file_path, _loaded_data, phase, used_ids>>
    /\ upd' = Rebound(upd, _node_list)
    /\ UNCHANGED <<node_data_dict, node_result_dict, cycle_log>>

\* ----------------------------------------------------------- default view
\* main.initialize_default_view, run once by main() before the event loop.
\* Both kinds are registered.  Its pre-render cycle works on two local
\* dictionaries that are dropped when it returns.
initialize_default_view ==
    /\ UNCHANGED <<sort, unuse_async_draw, _terminate_flag>>
    /\ phase = "startup"
    /\ phase' = "running"
    /\ IF _atlas_config.enabled /\ _atlas_config.auto_load
       THEN LET id1 == NextNodeId(_node_id)
                id2 == NextNodeId(id1)
                dataset_tag == <<id1, "DefaultDataset">>
                chart_tag == <<id2, "LineChart">>
                source_attr == PortTag(dataset_tag, <<"TimeSeries", "Output01">>)
                dest_attr == PortTag(chart_tag, <<"TimeSeries", "Input01">>)
            IN  /\ _node_id' = id2
                /\ _dataset_loaded' =
                      DatasetLoadedAfterAdd("DefaultDataset", _atlas_config, _dataset_loaded)
                /\ dpg_nodes' = dpg_nodes \cup {dataset_tag, chart_tag}
                /\ _node_list' = Append(Append(_node_list, dataset_tag), chart_tag)
                /\ _node_link_list' = Append(_node_link_list, <<source_attr, dest_attr>>)
                /\ _node_connection_dict' = _sort_node_graph(_node_list', _node_link_list')
                /\ used_ids' = used_ids \cup {id1, id2}
       ELSE UNCHANGED <<_node_id, _dataset_loaded, dpg_nodes, _node_list, _node_link_list,
                        _node_connection_dict, used_ids>>
    /\ last' = Op("default_view", <<>>, <<>>)
    /\ UNCHANGED <<_atlas_config, _file_path, _loaded_data>>
    /\ UNCHANGED cycle_vars

\* ------------------------------------------------------ export and import
\* Node.get_setting_dict of each kind (positions and widget values left out).
\* DefaultDataset returns neither 'ver' nor 'pos'.
get_setting_dict(kind, dataset_loaded, file_path) ==
    IF kind = "DefaultDataset"
    THEN [dataset_loaded |-> dataset_loaded, node_type |-> "default_dataset"]
    ELSE IF kind = "JSONImport"
         THEN [ver |-> "0.0.1", file_path |-> file_path]
         ELSE [ver |-> "0.0.1"]

\* _callback_file_export: the setting_dict written to the file.
ExportSnapshot(node_list, link_list, atlas_config, dataset_loaded, file_path) ==
    [node_list |-> node_list,
     link_list |-> link_list,
     atlas_config |-> atlas_config,
     setting |-> [n \in SeqToSet(node_list) |->
                     get_setting_dict(n[2], dataset_loaded, file_path)]]

_callback_file_export ==
    /\ UNCHANGED <<sort, unuse_async_draw, _terminate_flag>>
    /\ phase = "running"
    /\ last' = Op("export",
                  ExportSnapshot(_node_list, _node_link_list, _atlas_config,
                                 _dataset_loaded, _file_path),
                  <<>>)
    /\ UNCHANGED <<_node_id, _node_list, _node_link_list, _node_connection_dict,
                   _atlas_config, dpg_nodes, _dataset_loaded, _file_path,
                   _loaded_data, phase, used_ids>>
    /\ UNCHANGED cycle_vars

\* Node.set_setting_dict of each kind, on the kind objects' state k.
SetSettingDict(kind, setting, k, load_ok) ==
    IF kind = "DefaultDataset"
    THEN [k EXCEPT !.dataset_loaded = setting.dataset_loaded]
    ELSE IF kind = "JSONImport"
         THEN [k EXCEPT !.file_path = setting.file_path,
                        !.loaded_data = IF setting.file_path # "" THEN load_ok
                                        ELSE k.loaded_data]
         ELSE k

\* The loop `for node_id_name in setting_dict['node_list']` of
\* _callback_file_import.  st = [node_id, dpg, k, used, raised, error]; a
\* kind that is not in _node_instance_list (KeyError), a missing 'ver' key
\* (KeyError) or an alias that already exists ends the handler with what the
\* loop has done so far.
RECURSIVE ImportNodes(_, _, _, _, _)
ImportNodes(nodes, snap, config, load_ok, st) ==
    IF nodes = <<>> \/ st.raised THEN st
    ELSE LET node_id_name == Head(nodes)
             node_id == node_id_name[1]
             kind == node_id_name[2]
             setting == snap.setting[node_id_name]
             counter == IF node_id > st.node_id THEN node_id ELSE st.node_id
             kind_error == kind \notin Kinds
             key_error == "ver" \notin DOMAIN setting
             alias_error == node_id_name \in st.dpg
             st2 == IF kind_error
                    THEN [st EXCEPT !.raised = TRUE, !.error = "KeyError: kind"]
                    ELSE IF key_error \/ alias_error
                    THEN [st EXCEPT !.node_id = counter, !.raised = TRUE,
                                    !.error = IF key_error THEN "KeyError: ver"
                                              ELSE "alias exists"]
                    ELSE [node_id |-> counter,
                          dpg |-> st.dpg \cup {node_id_name},
                          k |-> SetSettingDict(kind, setting,
                                   [st.k EXCEPT !.dataset_loaded =
                                       DatasetLoadedAfterAdd(kind, config, @)],
                                   load_ok),
                          used |-> st.used \cup {node_id},
                          raised |-> FALSE, error |-> ""]
         IN  ImportNodes(Tail(nodes), snap, config, load_ok, st2)

\* The kind objects' state and the counters the import loop works on.
ImportState ==
    [node_id |-> _node_id, dpg |-> dpg_nodes,
     k |-> [dataset_loaded |-> _dataset_loaded, file_path |-> _file_path,
            loaded_data |-> _loaded_data],
     used |-> used_ids, raised |-> FALSE, error |-> ""]

\* A file json.load cannot parse, or one without the 'node_list' key: the
\* handler raises before its loop.
Unreadable(file) == "node_list" \notin DOMAIN file

\* _callback_file_import_menu opens the (modal) import dialog only while
\* _node_id == 0; _callback_file_import then reads the chosen file.
_callback_file_import(snap, load_ok) ==
    /\ UNCHANGED <<sort, unuse_async_draw, _terminate_flag>>
    /\ phase = "running"
    /\ _node_id = 0
    /\ IF Unreadable(snap)
       THEN /\ last' = Op("import", snap, <<"raised", "unreadable">>)
            /\ UNCHANGED <<_node_id, dpg_nodes, _dataset_loaded, _file_path, _loaded_data,
                           used_ids, _node_list, _node_link_list, _node_connection_dict,
                           _atlas_config, phase, upd>>
       ELSE LET r == ImportNodes(snap.node_list, snap, _atlas_config, load_ok, ImportState)
            IN  /\ _node_id' = r.node_id
                /\ dpg_nodes' = r.dpg
                /\ _dataset_loaded' = r.k.dataset_loaded
                /\ _file_path' = r.k.file_path
                /\ _loaded_data' = r.k.loaded_data
                /\ used_ids' = r.used
                /\ IF r.raised
                   THEN UNCHANGED <<_node_list, _node_link_list, _node_connection_dict,
                                    _atlas_config, phase>>
                   ELSE /\ _node_list' = snap.node_list
                        /\ _node_link_list' = snap.link_list
                        /\ _atlas_config' = snap.atlas_config
                        /\ Resort(snap.node_list, snap.link_list)
                /\ upd' = IF r.raised THEN upd ELSE Rebound(upd, _node_list)
                /\ last' = Op("import", snap,
                              IF r.raised THEN <<"raised", r.error>> ELSE <<"ok">>)
    /\ UNCHANGED <<node_data_dict, node_result_dict, cycle_log>>

\* _callback_file_import_menu (File > Import): the item it shows, the file
\* dialog 'atlas_file_import' or the 'Import Restriction' popup.
ImportMenuShows(node_id) ==
    IF node_id = 0 THEN "atlas_file_import" ELSE "modal_atlas_file_import"

_callback_file_import_menu ==
    /\ UNCHANGED <<sort, unuse_async_draw, _terminate_flag>>
    /\ phase = "running"
    /\ last' = Op("import_menu", <<>>, <<ImportMenuShows(_node_id)>>)
    /\ UNCHANGED <<_node_id, _node_list, _node_link_list, _node_connection_dict,
                   _atlas_config, dpg_nodes, _dataset_loaded, _file_path,
                   _loaded_data, phase, used_ids>>
    /\ UNCHANGED cycle_vars

\* The files a user can pick in the import dialog: what _callback_file_export
\* writes for a node list with increasing ids and a link list of
\* type-compatible links with at most one link per input port.
SnapNodeLists ==
    {nl \in UNION {[1..n -> (1..MaxNodeId) \X Kinds] : n \in 0..MaxSnapNodes} :
        \A i, j \in 1..Len(nl) : i < j => nl[i][1] < nl[j][1]}

CompatibleLinks(nl) ==
    {<<PortTag(s, o), PortTag(d, i)>> :
        <<s, o, d, i>> \in
            {q \in SeqToSet(nl) \X (UNION {OutputPorts(k) : k \in Kinds})
                   \X SeqToSet(nl) \X (UNION {InputPorts(k) : k \in Kinds}) :
                /\ q[2] \in OutputPorts(q[1][2])
                /\ q[4] \in InputPorts(q[3][2])
                /\ q[2][1] = q[4][1]}}

SnapLinkLists(nl) ==
    {ll \in UNION {[1..n -> CompatibleLinks(nl)] : n \in 0..Cardinality(CompatibleLinks(nl))} :
        \A i, j \in 1..Len(ll) : i < j => ll[i][2] # ll[j][2]}

Snapshots ==
    UNION {{ExportSnapshot(nl, ll, c, dl, fp) :
               ll \in SnapLinkLists(nl), c \in Configs,
               dl \in BOOLEAN, fp \in {"", "data.json"}} :
           nl \in SnapNodeLists}

\* _callback_file_import as the refresh loop can see it, in two steps.
\* ImportRestore: the handler through its add_node_link loop; the nodes are
\* created with the ids of the file, then _node_list and _node_link_list are
\* bound to the file's lists and the links drawn.
ImportRestore(snap, load_ok) ==
    /\ UNCHANGED <<sort, unuse_async_draw, _terminate_flag>>
    /\ phase = "running"
    /\ _node_id = 0
    /\ ~Unreadable(snap)
    /\ LET r == ImportNodes(snap.node_list, snap, _atlas_config, load_ok, ImportState)
       IN  /\ _node_id' = r.node_id
           /\ dpg_nodes' = r.dpg
           /\ _dataset_loaded' = r.k.dataset_loaded
           /\ _file_path' = r.k.file_path
           /\ _loaded_data' = r.k.loaded_data
           /\ used_ids' = r.used
           /\ IF r.raised
              THEN UNCHANGED <<_node_list, _node_link_list, _atlas_config, phase>>
              ELSE /\ _node_list' = snap.node_list
                   /\ _node_link_list' = snap.link_list
                   /\ _atlas_config' = snap.atlas_config
                   /\ phase' = "importing"
           /\ upd' = IF r.raised THEN upd ELSE Rebound(upd, _node_list)
           /\ last' = Op("import", snap,
                         IF r.raised THEN <<"raised", r.error>> ELSE <<"restored">>)
    /\ UNCHANGED <<_node_connection_dict, node_data_dict, node_result_dict, cycle_log>>

\* ImportSort: the handler's last statement, the one call of _sort_node_graph.
ImportSort ==
    /\ UNCHANGED <<sort, unuse_async_draw, _terminate_flag>>
    /\ phase = "importing"
    /\ LET c == SortCall(_node_list, _node_link_list)
       IN  /\ _node_connection_dict' = IF c.returns THEN c.items ELSE _node_connection_dict
           /\ phase' = IF c.returns THEN "running" ELSE "hung"
    /\ last' = Op("import", last.a, <<"ok">>)
    /\ UNCHANGED <<_node_id, _node_list, _node_link_list, _atlas_config, dpg_nodes,
                   _dataset_loaded, _file_path, _loaded_data, used_ids>>
    /\ UNCHANGED cycle_vars

\* A node kind no file under atlas_nodes/ registers.
UnknownKind == "Unknown"

\* Dashboard files with a node of an unknown kind (no links).
ForeignNodeLists ==
    {nl \in UNION {[1..n -> (1..MaxNodeId) \X (Kinds \cup {UnknownKind})] :
                      n \in 1..MaxSnapNodes} :
        /\ \A i, j \in 1..Len(nl) : i < j => nl[i][1] < nl[j][1]
        /\ \E i \in 1..Len(nl) : nl[i][2] = UnknownKind}

ForeignSnapshots ==
    {[node_list |-> nl, link_list |-> <<>>, atlas_config |-> c,
      setting |-> [n \in SeqToSet(nl) |->
                      IF n[2] \in Kinds THEN get_setting_dict(n[2], FALSE, "")
                      ELSE [ver |-> "0.0.1"]]] :
        nl \in ForeignNodeLists, c \in Configs}

\* A file that is not a dashboard: not JSON, or JSON without 'node_list'.
MalformedFile == [malformed |-> TRUE]

\* Whether JSONImport._load_json_file can read the data file a dashboard
\* file names: open to either outcome when the file names one.
LoadOutcomes(file) ==
    IF /\ ~Unreadable(file)
       /\ \E n \in SeqToSet(file.node_list) :
             /\ n[2] = "JSONImport"
             /\ file.setting[n].file_path # ""
    THEN BOOLEAN
    ELSE {FALSE}

\* Every file the import dialog can be pointed at.
ImportFiles == Snapshots \cup ForeignSnapshots \cup {MalformedFile}

\* -------------------------------------------------------- execution cycle
\* dict.get(key, None).
DictGet(d, key) == IF key \in DOMAIN d THEN d[key] ELSE NoPayload

\* sorted_node_connection_dict.get(node_id_name, []).
ConnectionList(conn, node_id_name) ==
    LET k == KeyIndexFrom(conn, node_id_name, 1)
    IN  IF k = 0 THEN <<>> ELSE conn[k][2]

\* LineChart.update: the payload of the source of the first TimeSeries
\* connection (None without one).
RECURSIVE ChartInput(_, _)
ChartInput(connection_list, data_dict) ==
    IF connection_list = <<>> THEN NoPayload
    ELSE IF TypeOfPort(Head(connection_list)[1]) = "TimeSeries"
         THEN DictGet(data_dict, NodeOfPort(Head(connection_list)[1]))
         ELSE ChartInput(Tail(connection_list), data_dict)

\* Node.update of each kind: [data, result].
NodeUpdate(kind, connection_list, data_dict) ==
    IF kind = "DefaultDataset"
    THEN IF _dataset_loaded
         THEN [data |-> [type |-> "time_series", series |-> DefaultDatasetSeries],
               result |-> "success"]
         ELSE [data |-> NoPayload, result |-> "no_data"]
    ELSE IF kind = "JSONImport"
    THEN IF _loaded_data
         THEN [data |-> [type |-> "time_series", series |-> 1], result |-> "metadata"]
         ELSE [data |-> NoPayload, result |-> "no_data"]
    ELSE LET input_data == ChartInput(connection_list, data_dict)
         IN  IF input_data.type = "None"
             THEN [data |-> NoPayload, result |-> "no_data"]
             ELSE IF input_data.type = "time_series"
                  THEN [data |-> [type |-> "chart", series |-> input_data.series],
                        result |-> "line"]
                  ELSE [data |-> NoPayload, result |-> "error"]

\* The list object the running cycle iterates: _node_list itself, or the
\* object _node_list was bound to when the cycle began.
IterList == IF upd.live THEN _node_list ELSE upd.list

\* The order in which update_node_info visits the nodes of a list.
VisitOrder(node_list) == node_list

\* A node's update raises: JSONImport.update calls dpg.set_value on the node's
\* output widgets without a guard, and DearPyGui raises for an item that does
\* not exist (any more).  DefaultDataset.update makes no DearPyGui call and
\* LineChart.update wraps its own in try/except.
UpdateRaises(node_id_name) ==
    node_id_name[2] = "JSONImport" /\ node_id_name \notin dpg_nodes

\* Variant: update_node_info without its try/except.
ExceptionCaughtNever(async) == FALSE

\* `if mode_async: try: ... except Exception: print(...); continue`, and the
\* bare call of the else branch: whether an exception of update is caught.
ExceptionCaught(async) == async

\* Variant: a failed update resets the node's payload to None.
NodeDataAfterPoisoned(data_dict, node_id_name, raised, data) ==
    [n \in DOMAIN data_dict \cup {node_id_name} |->
        IF n = node_id_name
        THEN IF raised THEN NoPayload ELSE data
        ELSE data_dict[n]]

\* node_data_dict after one iteration of the loop: the None placeholder of
\* `if node_id_name not in node_data_dict`, then, unless update raised,
\* `node_data_dict[node_id_name] = copy.deepcopy(data)`.
NodeDataAfter(data_dict, node_id_name, raised, data) ==
    [n \in DOMAIN data_dict \cup {node_id_name} |->
        IF n = node_id_name
        THEN IF raised THEN DictGet(data_dict, n) ELSE data
        ELSE data_dict[n]]

\* node_result_dict after one iteration of the loop.
NodeResultAfter(result_dict, node_id_name, raised, result) ==
    IF raised THEN result_dict
    ELSE [n \in DOMAIN result_dict \cup {node_id_name} |->
             IF n = node_id_name THEN result ELSE result_dict[n]]

\* Variant: the flag is never seen.
get_terminate_flagNever == FALSE

\* AtlasNodeEditor.get_terminate_flag.
get_terminate_flag == _terminate_flag

\* Whether the loop that calls update_node_info goes round again:
\* `while not node_editor.get_terminate_flag()` of async_main (started by
\* main() after initialize_default_view), `while dpg.is_dearpygui_running()`
\* of main().
LoopContinues ==
    IF mode_async THEN phase # "startup" /\ ~get_terminate_flag
    ELSE phase \in {"running", "importing", "hung"}

\* update_node_info, up to its loop: it fetches the node list and the sorted
\* connection dict once.  The loop that calls it runs on its own thread
\* (async_main) or between two frames (main), whatever a callback is doing.
UpdateBegin ==
    /\ UNCHANGED <<sort, unuse_async_draw, _terminate_flag>>
    /\ LoopContinues
    /\ upd.pc = "idle"
    /\ upd' = [pc |-> "run", i |-> 0, live |-> TRUE, list |-> <<>>,
               conn |-> _node_connection_dict, errors |-> <<>>]
    /\ cycle_log' = <<>>
    /\ UNCHANGED <<_node_id, _node_list, _node_link_list, _node_connection_dict,
                   _atlas_config, dpg_nodes, _dataset_loaded, _file_path, _loaded_data,
                   phase, node_data_dict, node_result_dict, used_ids, last>>

\* One iteration of `for node_id_name in node_list`: the node's update and
\* the two stores.  An exception that is not caught leaves update_node_info
\* and main()'s loop: the process ends with the traceback.
UpdateNode ==
    /\ UNCHANGED <<sort, unuse_async_draw, _terminate_flag>>
    /\ upd.pc = "run"
    /\ upd.i < Len(IterList)
    /\ LET node_id_name == VisitOrder(IterList)[upd.i + 1]
           connection_list == ConnectionList(upd.conn, node_id_name)
           raised == UpdateRaises(node_id_name)
           r == NodeUpdate(node_id_name[2], connection_list, node_data_dict)
       IN  /\ node_data_dict' = NodeDataAfter(node_data_dict, node_id_name, raised, r.data)
           /\ node_result_dict' =
                 NodeResultAfter(node_result_dict, node_id_name, raised, r.result)
           /\ cycle_log' = Append(cycle_log, node_id_name)
           /\ IF raised /\ ~ExceptionCaught(mode_async)
              THEN /\ upd' = [upd EXCEPT !.pc = "raised",
                                          !.errors = Append(@, node_id_name)]
                   /\ phase' = "crashed"
              ELSE /\ upd' = [upd EXCEPT !.i = @ + 1,
                                          !.errors = IF raised THEN Append(@, node_id_name)
                                                     ELSE @]
                   /\ UNCHANGED phase
    /\ UNCHANGED <<_node_id, _node_list, _node_link_list, _node_connection_dict,
                   _atlas_config, dpg_nodes, _dataset_loaded, _file_path, _loaded_data,
                   used_ids, last>>

\* The loop of update_node_info ends and the call returns.
UpdateEnd ==
    /\ UNCHANGED <<sort, unuse_async_draw, _terminate_flag>>
    /\ upd.pc = "run"
    /\ upd.i >= Len(IterList)
    /\ upd' = Idle
    /\ UNCHANGED <<_node_id, _node_list, _node_link_list, _node_connection_dict,
                   _atlas_config, dpg_nodes, _dataset_loaded, _file_path, _loaded_data,
                   phase, node_data_dict, node_result_dict, cycle_log, used_ids, last>>

\* async_main leaves its loop and returns: the flag is set when the loop
\* tests it.
AsyncMainReturn ==
    /\ UNCHANGED <<sort, unuse_async_draw, _terminate_flag>>
    /\ mode_async
    /\ phase # "startup"
    /\ upd.pc = "idle"
    /\ get_terminate_flag
    /\ upd' = [upd EXCEPT !.pc = "returned"]
    /\ UNCHANGED <<_node_id, _node_list, _node_link_list, _node_connection_dict,
                   _atlas_config, dpg_nodes, _dataset_loaded, _file_path, _loaded_data,
                   phase, node_data_dict, node_result_dict, cycle_log, used_ids, last>>

\* main() after its event loop (the window was closed): "Close All Nodes",
\* close() for every node of the node list.  In the sync mode the event loop
\* is the loop that calls update_node_info, so no cycle is running.
CloseAllNodes ==
    /\ UNCHANGED <<sort, unuse_async_draw, _terminate_flag>>
    /\ phase = "running"
    /\ mode_async \/ upd.pc = "idle"
    /\ _dataset_loaded' = IF \E i \in 1..Len(_node_list) : _node_list[i][2] = "DefaultDataset"
                          THEN FALSE ELSE _dataset_loaded
    /\ phase' = "closing"
    /\ last' = Op("close_all", <<>>, <<>>)
    /\ UNCHANGED <<_node_id, _node_list, _node_link_list, _node_connection_dict,
                   _atlas_config, dpg_nodes, _file_path, _loaded_data, used_ids>>
    /\ UNCHANGED cycle_vars

\* main(): "Stop Event Loop", node_editor.set_terminate_flag() (flag=True).
set_terminate_flag ==
    /\ UNCHANGED <<sort, unuse_async_draw>>
    /\ phase = "closing"
    /\ _terminate_flag' = TRUE
    /\ phase' = "terminated"
    /\ last' = Op("set_terminate_flag", <<>>, <<>>)
    /\ UNCHANGED <<_node_id, _node_list, _node_link_list, _node_connection_dict,
                   _atlas_config, dpg_nodes, _dataset_loaded, _file_path, _loaded_data,
                   used_ids>>
    /\ UNCHANGED cycle_vars

Next ==
    \/ initialize_default_view
    \/ \E kind \in Kinds : _callback_add_node(kind)
    \/ \E source \in CanvasOutputs, destination \in CanvasInputs :
          _callback_link(source, destination)
    \/ \E sel_node \in dpg_nodes \cup {NoSel},
          sel_link \in SeqToSet(_node_link_list) \cup {NoSel} :
          _callback_mv_key_del(sel_node, sel_link)
    \/ _callback_new_dashboard
    \/ _load_sample_data
    \/ \E load_ok \in BOOLEAN : _callback_file_select(load_ok)
    \/ _callback_file_export
    \/ \E snap \in Snapshots : \E load_ok \in LoadOutcomes(snap) :
          _callback_file_import(snap, load_ok)

Spec == Init /\ [][Next]_vars

\* The callbacks that edit the graph: add-node, link attempts, node and link
\* deletions, New Dashboard (after main()'s initialize_default_view).
NextLinker ==
    \/ initialize_default_view
    \/ \E kind \in Kinds : _callback_add_node(kind)
    \/ \E source \in CanvasOutputs, destination \in CanvasInputs :
          _callback_link(source, destination)
    \/ \E sel_node \in dpg_nodes \cup {NoSel},
          sel_link \in SeqToSet(_node_link_list) \cup {NoSel} :
          _callback_mv_key_del(sel_node, sel_link)
    \/ _callback_new_dashboard

SpecLinker == Init /\ [][NextLinker]_vars

\* The graph-editing callbacks with _callback_link called on any two
\* linkable attributes, in either order, with its own cap on the id counter.
NextLinkAny ==
    \/ initialize_default_view /\ _node_id' <= MaxLinkNodeId
    \/ \E kind \in Kinds : _callback_add_node(kind) /\ _node_id' <= MaxLinkNodeId
    \/ \E source \in CanvasAttributes, destination \in CanvasAttributes :
          _callback_link(source, destination) /\ Len(_node_link_list') <= MaxAnyLinks
    \/ \E sel_node \in dpg_nodes \cup {NoSel},
          sel_link \in SeqToSet(_node_link_list) \cup {NoSel} :
          _callback_mv_key_del(sel_node, sel_link)
    \/ _callback_new_dashboard

SpecLinkAny == Init /\ [][NextLinkAny]_vars

\* The callbacks that create and remove nodes: default view, add-node,
\* import, deletions, New Dashboard.
NextNodes ==
    \/ initialize_default_view
    \/ \E kind \in Kinds : _callback_add_node(kind)
    \/ \E sel_node \in dpg_nodes \cup {NoSel},
          sel_link \in SeqToSet(_node_link_list) \cup {NoSel} :
          _callback_mv_key_del(sel_node, sel_link)
    \/ _callback_new_dashboard
    \/ \E snap \in Snapshots : \E load_ok \in LoadOutcomes(snap) :
          _callback_file_import(snap, load_ok)

SpecNodes == Init /\ [][NextNodes]_vars

\* The dashboard files of nodes in their initial settings (no data file
\* chosen, sample data not loaded): the settings play no part in the topology.
PlainSnapshots ==
    UNION {{ExportSnapshot(nl, ll, c, FALSE, "") :
               ll \in SnapLinkLists(nl), c \in Configs} :
           nl \in SnapNodeLists}

\* Every callback that changes the topology: default view, add-node, link
\* attempts, deletions, New Dashboard, import.
NextTopology ==
    \/ initialize_default_view
    \/ \E kind \in Kinds : _callback_add_node(kind)
    \/ \E source \in CanvasOutputs, destination \in CanvasInputs :
          _callback_link(source, destination)
    \/ \E sel_node \in dpg_nodes \cup {NoSel},
          sel_link \in SeqToSet(_node_link_list) \cup {NoSel} :
          _callback_mv_key_del(sel_node, sel_link)
    \/ _callback_new_dashboard
    \/ \E snap \in PlainSnapshots : \E load_ok \in LoadOutcomes(snap) :
          _callback_file_import(snap, load_ok)

SpecTopology == Init /\ [][NextTopology]_vars

\* The import dialog pointed at any file, with the callbacks that remove
\* nodes.
NextImport ==
    \/ initialize_default_view
    \/ \E file \in ImportFiles : \E load_ok \in LoadOutcomes(file) :
          _callback_file_import(file, load_ok)
    \/ \E sel_node \in dpg_nodes \cup {NoSel},
          sel_link \in SeqToSet(_node_link_list) \cup {NoSel} :
          _callback_mv_key_del(sel_node, sel_link)
    \/ _callback_new_dashboard

SpecImport == Init /\ [][NextImport]_vars

\* Dashboard files of up to MaxGhostFileNodes nodes without links, in their
\* initial settings: exported ones, and ones that name an unknown kind.
GhostNodeLists ==
    {nl \in UNION {[1..n -> (1..MaxGhostFileNodes) \X (Kinds \cup {UnknownKind})] :
                      n \in 1..MaxGhostFileNodes} :
        \A i, j \in 1..Len(nl) : i < j => nl[i][1] < nl[j][1]}

GhostFiles ==
    {[node_list |-> nl, link_list |-> <<>>, atlas_config |-> c,
      setting |-> [n \in SeqToSet(nl) |->
                      IF n[2] \in Kinds THEN get_setting_dict(n[2], FALSE, "")
                      ELSE [ver |-> "0.0.1"]]] :
        nl \in GhostNodeLists, c \in Configs}

\* An import, then add-node and link attempts on what the import left on the
\* canvas.
NextGhost ==
    \/ initialize_default_view
    \/ \E snap \in GhostFiles : \E load_ok \in LoadOutcomes(snap) :
          _callback_file_import(snap, load_ok)
    \/ \E kind \in Kinds : _callback_add_node(kind)
    \/ \E source \in CanvasOutputs, destination \in CanvasInputs :
          _callback_link(source, destination)

SpecGhost == Init /\ [][NextGhost]_vars

\* File > Import beside the callbacks that create and remove nodes.
NextImportMenu ==
    \/ initialize_default_view
    \/ \E kind \in Kinds : _callback_add_node(kind)
    \/ \E sel_node \in dpg_nodes \cup {NoSel},
          sel_link \in SeqToSet(_node_link_list) \cup {NoSel} :
          _callback_mv_key_del(sel_node, sel_link)
    \/ _callback_new_dashboard
    \/ _callback_file_import_menu
    \/ \E snap \in PlainSnapshots : \E load_ok \in LoadOutcomes(snap) :
          _callback_file_import(snap, load_ok)

SpecImportMenu == Init /\ [][NextImportMenu]_vars

\* The refresh loop (the thread of update_node_info) running beside the
\* graph-editing callbacks (the DearPyGui callback thread), with its own cap
\* on the id counter.
CycleCap == _node_id' <= MaxCycleNodeId

NextCycle ==
    \/ initialize_default_view /\ CycleCap
    \/ \E kind \in Kinds : _callback_add_node(kind) /\ CycleCap
    \/ \E source \in CanvasOutputs, destination \in CanvasInputs :
          _callback_link(source, destination)
    \/ \E sel_node \in dpg_nodes \cup {NoSel},
          sel_link \in SeqToSet(_node_link_list) \cup {NoSel} :
          _callback_mv_key_del(sel_node, sel_link)
    \/ _callback_new_dashboard
    \/ UpdateBegin
    \/ UpdateNode
    \/ UpdateEnd

SpecCycle == Init /\ [][NextCycle]_vars

\* The refresh loop of either mode beside the callbacks that create, load and
\* remove nodes.
NextRefresh ==
    \/ initialize_default_view /\ CycleCap
    \/ \E kind \in Kinds : _callback_add_node(kind) /\ CycleCap
    \/ \E load_ok \in BOOLEAN : _callback_file_select(load_ok)
    \/ \E sel_node \in dpg_nodes \cup {NoSel},
          sel_link \in SeqToSet(_node_link_list) \cup {NoSel} :
          _callback_mv_key_del(sel_node, sel_link)
    \/ _callback_new_dashboard
    \/ UpdateBegin
    \/ UpdateNode
    \/ UpdateEnd

SpecRefresh == InitRefresh /\ [][NextRefresh]_vars

\* The refresh loop of either mode beside the callbacks that create and
\* remove nodes, through main()'s cleanup.
NextShutdown ==
    \/ initialize_default_view /\ CycleCap
    \/ \E kind \in Kinds : _callback_add_node(kind) /\ CycleCap
    \/ \E sel_node \in dpg_nodes \cup {NoSel},
          sel_link \in SeqToSet(_node_link_list) \cup {NoSel} :
          _callback_mv_key_del(sel_node, sel_link)
    \/ _callback_new_dashboard
    \/ UpdateBegin
    \/ UpdateNode
    \/ UpdateEnd
    \/ AsyncMainReturn
    \/ CloseAllNodes
    \/ set_terminate_flag

SpecShutdown == InitRefresh /\ [][NextShutdown]_vars

\* The same with the refresh thread scheduled: a step of the thread that can
\* be taken is taken in the end.
FairShutdown ==
    /\ SpecShutdown
    /\ WF_vars(UpdateNode)
    /\ WF_vars(UpdateEnd)
    /\ WF_vars(AsyncMainReturn)

\* The refresh loop of either mode beside an import.
NextImportCycle ==
    \/ initialize_default_view
    \/ \E snap \in Snapshots : \E load_ok \in LoadOutcomes(snap) : ImportRestore(snap, load_ok)
    \/ ImportSort
    \/ UpdateBegin
    \/ UpdateNode
    \/ UpdateEnd

SpecImportCycle == InitRefresh /\ [][NextImportCycle]_vars

\* --------------------------------------- _sort_node_graph, step by step
\* The graphs handed to the linearizer: nodes of one abstract kind with one
\* output and two inputs, the node list in creation order (ids increasing),
\* a link list with at most one link per input port.  Cycles are allowed.
SortNode(i) == <<i, "Node">>
SortOutput(i) == PortTag(SortNode(i), <<"T", "Output01">>)
SortInputs(i) == {PortTag(SortNode(i), <<"T", name>>) : name \in {"Input01", "Input02"}}

RECURSIVE SortedList(_)
SortedList(idset) ==
    IF idset = {} THEN <<>>
    ELSE LET m == CHOOSE x \in idset : \A y \in idset : x <= y
         IN  <<SortNode(m)>> \o SortedList(idset \ {m})

SortNodeLists == {SortedList(idset) : idset \in SUBSET (1..MaxSortNodes)}

SortLinks(node_list) ==
    UNION {{<<SortOutput(s[1]), d>> : d \in SortInputs(t[1])} :
              <<s, t>> \in SeqToSet(node_list) \X SeqToSet(node_list)}

SortLinkLists(node_list) ==
    {ll \in UNION {[1..n -> SortLinks(node_list)] : n \in 0..MaxSortLinks} :
        \A i, j \in 1..Len(ll) : i < j => ll[i][2] # ll[j][2]}

\* The call begins: its two arguments.
InitSort ==
    /\ InitEditor
    /\ \E nl \in SortNodeLists : \E ll \in SortLinkLists(nl) :
          sort = [pc |-> "organize", node_list |-> nl, node_link_list |-> ll,
                  ids |-> <<>>, conn |-> <<>>, index |-> 0, unfinded |-> <<>>,
                  iterations |-> 0]

\* `for link_info in node_link_list`, then `index = 0`.
SortOrganize ==
    /\ sort.pc = "organize"
    /\ LET o == OrganizeLinks(sort.node_link_list, <<>>, <<>>)
       IN  sort' = [sort EXCEPT !.pc = "swap", !.ids = o.ids, !.conn = o.conn,
                                !.index = 0]
    /\ UNCHANGED editor_vars

\* The square of the length of the linearizer's working list.
SwapBound(ids) == Len(ids) * Len(ids)

\* One iteration of the swap loop.  The loop has no counter of its own:
\* iterations counts them, and a run is followed for SwapBound iterations
\* and one more.
SortSwap ==
    /\ sort.pc = "swap"
    /\ sort.index < Len(sort.ids)
    /\ sort.iterations <= SwapBound(sort.ids)
    /\ LET w == SwapIteration([ids |-> sort.ids, conn |-> sort.conn,
                               index |-> sort.index])
       IN  sort' = [sort EXCEPT !.ids = w.ids, !.conn = w.conn, !.index = w.index,
                                !.iterations = @ + 1]
    /\ UNCHANGED editor_vars

\* The swap loop ends: `index = 0; unfinded_id_dict = {}`.
SortSwapEnd ==
    /\ sort.pc = "swap"
    /\ sort.index >= Len(sort.ids)
    /\ sort' = [sort EXCEPT !.pc = "find", !.index = 0, !.unfinded = <<>>]
    /\ UNCHANGED editor_vars

\* One iteration of the second loop.
SortFind ==
    /\ sort.pc = "find"
    /\ sort.index < Len(sort.ids)
    /\ LET f == FindIteration([index |-> sort.index, unfinded |-> sort.unfinded],
                              sort.ids, sort.node_list)
       IN  sort' = [sort EXCEPT !.index = f.index, !.unfinded = f.unfinded]
    /\ UNCHANGED editor_vars

\* The second loop ends: the unfound nodes are inserted and the dict returned.
SortReturn ==
    /\ sort.pc = "find"
    /\ sort.index >= Len(sort.ids)
    /\ sort' = [sort EXCEPT !.pc = "done",
                            !.conn = InsertUnfinded(sort.unfinded, sort.conn)]
    /\ UNCHANGED editor_vars

NextSort ==
    \/ SortOrganize
    \/ SortSwap
    \/ SortSwapEnd
    \/ SortFind
    \/ SortReturn

SpecSort == InitSort /\ [][NextSort]_vars

\* ------------------------------------------------------- graph vocabulary
\* The node-to-node edges of a link list, and the pairs joined by a path.
Edges(links) == {<<NodeOfPort(links[i][1]), NodeOfPort(links[i][2])>> : i \in 1..Len(links)}

RECURSIVE Paths(_, _)
Paths(edges, reached) ==
    LET more == reached \cup
                {<<p[1], e[2]>> : <<p, e>> \in {x \in reached \X edges : x[1][2] = x[2][1]}}
    IN  IF more = reached THEN reached ELSE Paths(edges, more)

CycleFree(links) == \A p \in Paths(Edges(links), Edges(links)) : p[1] # p[2]

\* 1-based position of a node in an ExecutionOrder, 0 when it is not in it.
RECURSIVE IndexOf(_, _, _)
IndexOf(order, node, from) ==
    IF from > Len(order) THEN 0
    ELSE IF order[from] = node THEN from
    ELSE IndexOf(order, node, from + 1)

NoDuplicates(seq) == \A i, j \in 1..Len(seq) : i # j => seq[i] # seq[j]

\* The links of a link list whose destination port is on a node, in list order.
RECURSIVE InboundLinks(_, _)
InboundLinks(links, node) ==
    IF links = <<>> THEN <<>>
    ELSE IF NodeOfPort(Head(links)[2]) = node
         THEN <<Head(links)>> \o InboundLinks(Tail(links), node)
         ELSE InboundLinks(Tail(links), node)

\* For reference: between two callbacks the stored dict gives every node of
\* the node list exactly its inbound links.
StoredConnectionsAreInbound ==
    phase \in {"startup", "running"} =>
        \A n \in SeqToSet(_node_list) :
            ConnectionList(_node_connection_dict, n) = InboundLinks(_node_link_list, n)

\* The cycle-free graphs handed to the linearizer: the node list and the
\* links of SortLinks, each node's inputs bound in the order Input01,
\* Input02, and no directed cycle.  _sort_node_graph compares node ids for
\* equality only (lines 343, 365, 381, 388), never for order, so the graphs
\* are taken up to renumbering: reading the link list from its head, source
\* before destination, the nodes appear in the order of their ids.
DagNodeList == SortedList(1..MaxDagNodes)

\* The ids on the links of a link list.
LinkedIds(ll) == UNION {{ll[i][1][1], ll[i][2][1]} : i \in 1..Len(ll)}

\* The ids a further endpoint can take: one met before, or the next new one.
NextIds(seen) == {id \in 1..MaxDagNodes : id <= Cardinality(seen) + 1}

\* The input of a node the next link to it binds (none when both are bound).
NextInput(ll, node) ==
    LET bound == {ll[i][2][4] : i \in {k \in 1..Len(ll) : NodeOfPort(ll[k][2]) = node}}
    IN  IF "Input01" \notin bound THEN {"Input01"}
        ELSE IF "Input02" \notin bound THEN {"Input02"}
        ELSE {}

\* The link lists of at most n links, grown one link at a time.
RECURSIVE DagLinkListsUpTo(_)
DagLinkListsUpTo(n) ==
    IF n = 0 THEN {<<>>}
    ELSE LET shorter == DagLinkListsUpTo(n - 1)
         IN  shorter \cup
             UNION {{Append(ll, <<SortOutput(q[1]), PortTag(SortNode(q[2]), <<"T", q[3]>>)>>) :
                        q \in {q \in (1..MaxDagNodes) \X (1..MaxDagNodes) \X {"Input01", "Input02"} :
                                /\ q[1] \in NextIds(LinkedIds(ll))
                                /\ q[2] \in NextIds(LinkedIds(ll) \cup {q[1]})
                                /\ q[3] \in NextInput(ll, SortNode(q[2]))
                                /\ CycleFree(Append(ll, <<SortOutput(q[1]),
                                                 PortTag(SortNode(q[2]), <<"T", q[3]>>)>>))}} :
                    ll \in {x \in shorter : Len(x) = n - 1}}

DagLinkLists == DagLinkListsUpTo(MaxDagLinks)

InitDag ==
    /\ InitEditor
    /\ _atlas_config = [enabled |-> FALSE, auto_load |-> FALSE]
    /\ \E ll \in DagLinkLists :
          sort = [pc |-> "organize", node_list |-> DagNodeList, node_link_list |-> ll,
                  ids |-> <<>>, conn |-> <<>>, index |-> 0, unfinded |-> <<>>,
                  iterations |-> 0]

SpecDag == InitDag /\ [][NextSort]_vars

\* For reference: the call followed step by step returns what SortCall
\* computes in one go.
SortStepsAgree ==
    sort.pc = "done" =>
        LET c == SortCall(sort.node_list, sort.node_link_list)
        IN  c.returns /\ c.items = sort.conn

\* For reference: nodes that are both in the order are in link order.
SortPlacedInOrder ==
    sort.pc = "done" /\ CycleFree(sort.node_link_list) =>
        \A e \in Edges(sort.node_link_list) :
            LET a == IndexOf(Keys(sort.conn), e[1], 1)
                b == IndexOf(Keys(sort.conn), e[2], 1)
            IN  a # 0 /\ b # 0 => a < b

\* ------------------------------------------------------------ properties
\* C1: the link list never holds two links that end at the same destination
\* (input) port, whatever add-node, link, delete and New Dashboard steps ran.
FanInAtMostOne ==
    \A i, j \in 1..Len(_node_link_list) :
        i # j => _node_link_list[i][2] # _node_link_list[j][2]

\* Two links coexist and a further attempt on a bound input has been made.
FanInWitness ==
    /\ Len(_node_link_list) >= 2
    /\ last.op = "link"
    /\ last.a = <<"input_bound">>

\* C2: every link of the link list joins two ports of the same PortType, and
\* a link attempt between ports of different PortType leaves the link list
\* as it was.
LinksTypeEqual ==
    \A i \in 1..Len(_node_link_list) :
        TypeOfPort(_node_link_list[i][1]) = TypeOfPort(_node_link_list[i][2])

TypeMismatchRejected ==
    /\ []LinksTypeEqual
    /\ [][last'.op = "link" /\ last'.a = <<"type_mismatch">>
            => _node_link_list' = _node_link_list]_vars

\* A mismatched attempt has been made on a graph that holds a link.
TypeMismatchWitness ==
    /\ last.op = "link"
    /\ last.a = <<"type_mismatch">>
    /\ Len(_node_link_list) >= 1

\* C3: a type-compatible attempt on a destination port that is already bound
\* is rejected: the binding link stays and the link list is unchanged.
BoundInputRejected ==
    [][last'.op = "link" /\ last'.a = <<"input_bound">>
         => _node_link_list' = _node_link_list]_vars

\* An attempt on the bound input of a graph with two possible sources.
BoundInputWitness ==
    /\ last.op = "link"
    /\ last.a = <<"input_bound">>
    /\ Len(_node_link_list) = 1
    /\ \E n \in dpg_nodes :
          /\ n # NodeOfPort(_node_link_list[1][1])
          /\ <<"TimeSeries", "Output01">> \in OutputPorts(n[2])

\* C4: for every link s -> d of a cycle-free link set, the source node stands
\* strictly before the destination node in the order _sort_node_graph returns.
SortRespectsLinks ==
    sort.pc = "done" /\ CycleFree(sort.node_link_list) =>
        \A e \in Edges(sort.node_link_list) :
            LET a == IndexOf(Keys(sort.conn), e[1], 1)
                b == IndexOf(Keys(sort.conn), e[2], 1)
            IN  a # 0 /\ b # 0 /\ a < b

\* C5: the order _sort_node_graph returns holds every node of the node list
\* exactly once, nodes without inbound link and graphs without links included.
SortIsPermutation ==
    sort.pc = "done" =>
        /\ NoDuplicates(Keys(sort.conn))
        /\ SeqToSet(Keys(sort.conn)) = SeqToSet(sort.node_list)

\* C6: in every cycle, for every link A -> B, A is updated (and its payload
\* stored) before B is updated, whatever the creation order of the nodes.
UpdatedInLinkOrder ==
    \A j \in 1..Len(cycle_log) :
        LET connection_list == ConnectionList(upd.conn, cycle_log[j])
        IN  \A c \in 1..Len(connection_list) :
                \E i \in 1..(j - 1) : cycle_log[i] = NodeOfPort(connection_list[c][1])

\* C7: both endpoints of every link of the link list are on nodes of the
\* node list (a deleted node takes its links with it).
LinkEndpointsInNodeList ==
    \A i \in 1..Len(_node_link_list) :
        /\ NodeOfPort(_node_link_list[i][1]) \in SeqToSet(_node_list)
        /\ NodeOfPort(_node_link_list[i][2]) \in SeqToSet(_node_list)

\* C8: no two nodes of the node list share an id, and every node created
\* (add-node, default view, import) gets an id above every id used before,
\* also after a deletion or New Dashboard.
NodeIdsFresh ==
    /\ [](\A i, j \in 1..Len(_node_list) : i # j => _node_list[i][1] # _node_list[j][1])
    /\ [][\A id \in used_ids' \ used_ids : \A u \in used_ids : id > u]_vars

\* A node has been added after an earlier node left the node list.
NodeIdsFreshWitness ==
    /\ last.op = "add_node"
    /\ \E u \in used_ids : \A i \in 1..Len(_node_list) : _node_list[i][1] # u

\* C9: importing an exported snapshot into an empty editor completes and
\* yields the exported node list, link list and per-node settings, for every
\* kind of node.
ImportRoundTrip ==
    last.op = "import" =>
        /\ last.b = <<"ok">>
        /\ ExportSnapshot(_node_list, _node_link_list, _atlas_config,
                          _dataset_loaded, _file_path) = last.a

\* C10: with the default dataset enabled and auto_load set,
\* initialize_default_view leaves the node list [dataset, chart] with one
\* TimeSeries link dataset output -> chart input, and every cycle that runs
\* on that graph stores a chart payload with at least one series.
DefaultViewRenders ==
    last.op = "default_view" /\ _atlas_config.enabled /\ _atlas_config.auto_load =>
        /\ _node_list = <<<<1, "DefaultDataset">>, <<2, "LineChart">>>>
        /\ _node_link_list = << <<<<1, "DefaultDataset", "TimeSeries", "Output01">>,
                                   <<2, "LineChart", "TimeSeries", "Input01">>>> >>
        /\ <<2, "LineChart">> \in DOMAIN node_data_dict =>
              /\ node_data_dict[<<2, "LineChart">>].type = "chart"
              /\ node_data_dict[<<2, "LineChart">>].series >= 1

\* A cycle on the default view has stored the chart's payload.
DefaultViewWitness ==
    /\ last.op = "default_view"
    /\ _atlas_config.enabled /\ _atlas_config.auto_load
    /\ upd.pc = "run" /\ upd.i = 2
    /\ <<2, "LineChart">> \in DOMAIN node_result_dict
    /\ node_result_dict[<<2, "LineChart">>] = "line"

RaiseLeavesEntries ==
    [][upd.pc = "run" /\ cycle_log' # cycle_log
         /\ UpdateRaises(VisitOrder(IterList)[upd.i + 1])
       => /\ node_result_dict' = node_result_dict
          /\ DOMAIN node_data_dict' \subseteq
                DOMAIN node_data_dict \cup {VisitOrder(IterList)[upd.i + 1]}
          /\ \A n \in DOMAIN node_data_dict' :
                DictGet(node_data_dict', n) = DictGet(node_data_dict, n)]_vars

\* The update of a node whose entry holds a payload has raised, beside the
\* entry of another node.
RaiseLeavesEntriesWitness ==
    /\ upd.errors # <<>>
    /\ upd.errors[1] \in DOMAIN node_data_dict
    /\ node_data_dict[upd.errors[1]].type = "time_series"
    /\ upd.errors[1] \in DOMAIN node_result_dict
    /\ \E n \in DOMAIN node_data_dict : n # upd.errors[1]

\* C13: for every link set, one with a directed cycle included, the
\* re-linearization terminates: the swap loop runs at most |working list|^2
\* iterations before the call goes on to return its order.
SwapIterationsBounded ==
    sort.pc # "none" => sort.iterations <= SwapBound(sort.ids)

\* C14: when a cycle begins, node_data_dict and node_result_dict hold
\* entries only for nodes of the node list: the entries of a node deleted
\* before (Delete key or New Dashboard) are gone, in either refresh mode.
DeletedNodesEvicted ==
    [][upd.pc = "idle" /\ upd'.pc = "run"
       => (DOMAIN node_data_dict' \cup DOMAIN node_result_dict')
             \subseteq SeqToSet(_node_list')]_vars

\* C15: an import that fails on a malformed file or on an unknown node kind
\* leaves the node list, the link list, the sorted connection map and the id
\* counter as they were, and has created no node of the file.
ImportFailureAtomic ==
    [][/\ last'.op = "import"
       /\ last'.b \in {<<"raised", "unreadable">>, <<"raised", "KeyError: kind">>}
       => UNCHANGED <<_node_list, _node_link_list, _node_connection_dict,
                      _node_id, dpg_nodes>>]_vars

\* C16: in the async refresh mode no callback changes the node list, the
\* link list or the sorted connection dict between the start and the end of
\* one call of update_node_info.
CycleNotInterleaved ==
    [][mode_async /\ upd.pc = "run" /\ upd'.pc = "run"
       => UNCHANGED <<_node_list, _node_link_list, _node_connection_dict>>]_vars

\* C17: import creates the nodes, then restores the links, then sorts once,
\* and no cycle begins on the imported node list before that sort has
\* replaced the sorted connection dict, in either refresh mode.
ImportSortsBeforeCycle ==
    ~(phase = "importing" /\ upd.pc = "run" /\ upd.live /\ _node_list # <<>>)

\* C18: a Delete that removes a link and no node removes exactly one link
\* and leaves the other links and the node list as they were, and the
\* removal of a link that is not in the link list raises no error.
LinkRemovalTotal ==
    [][last'.op = "key_del"
       => /\ last'.b # <<"raised", "link">>
          /\ _node_list' = _node_list /\ _node_link_list' # _node_link_list
             => \E i \in 1..Len(_node_link_list) :
                   _node_link_list' = ListRemove(_node_link_list, _node_link_list[i])]_vars

RejectionReported ==
    last.op = "link" /\ last.a \in {<<"type_mismatch">>, <<"input_bound">>}
        => last.b # <<"None">>

\* C21: a link attempt whose source is not an Output port or whose
\* destination is not an Input port never enters the link list, also when the
\* two PortTypes are equal and the destination is unbound: every link of the
\* link list runs from an Output port to an Input port.
LinksDirected ==
    \A i \in 1..Len(_node_link_list) :
        /\ DirectionOfPort(_node_link_list[i][1]) = "Output"
        /\ DirectionOfPort(_node_link_list[i][2]) = "Input"

\* C22: the connection list handed to a node's update is exactly the list of
\* the links of the current link list that end on that node (empty for a
\* node without inbound link), so no link is handed to a node other than its
\* destination node.
ConnectionsAreInbound ==
    [][upd.pc = "run" /\ cycle_log' # cycle_log
       => ConnectionList(upd.conn, VisitOrder(IterList)[upd.i + 1])
             = InboundLinks(_node_link_list, VisitOrder(IterList)[upd.i + 1])]_vars

\* The step-3 procedure of the scheduler as specified, on a working list of
\* (destination id, predecessor ids) entries.  LaterPreds: the positions after
\* i that hold a predecessor of entry i.  FirstUnstable: the first entry with a
\* predecessor later in the list (0: a full scan swaps nothing).
LaterPreds(l, i) == {j \in (i + 1)..Len(l) : l[j][1] \in SeqToSet(l[i][2])}

FirstUnstable(l) ==
    IF \E i \in 1..Len(l) : LaterPreds(l, i) # {}
    THEN CHOOSE i \in 1..Len(l) :
             /\ LaterPreds(l, i) # {}
             /\ \A k \in 1..(i - 1) : LaterPreds(l, k) = {}
    ELSE 0

\* The procedure with the predecessors of an entry taken in the order of the
\* entry's links: swap with the first listed predecessor that stands later,
\* restart from the top.
RECURSIVE ProcedureOrder(_)
ProcedureOrder(l) ==
    LET i == FirstUnstable(l)
        first_later(preds) ==
            LET k == CHOOSE k \in 1..Len(preds) :
                         /\ KeyIndexFrom(l, preds[k], i + 1) # 0
                         /\ \A m \in 1..(k - 1) : KeyIndexFrom(l, preds[m], i + 1) = 0
            IN  KeyIndexFrom(l, preds[k], i + 1)
    IN  IF i = 0 THEN Keys(l)
        ELSE ProcedureOrder(Swap(l, i, first_later(l[i][2])))

\* The working list _sort_node_graph seeds its swap loop with.
SeedList == OrganizeLinks(sort.node_link_list, <<>>, <<>>).ids

\* C23 (as stated): for every cycle-free link set the order of destination
\* nodes the swap loop ends with equals the order of the specified step-3
\* procedure (first entry with a later predecessor, swap, restart from the
\* top), also when a destination has two or more predecessors after it.
SwapLoopIsProcedure ==
    sort.pc \in {"find", "done"} /\ CycleFree(sort.node_link_list) =>
        Keys(sort.ids) = ProcedureOrder(SeedList)

\* The swap loop run from w meets, at its scan position, an entry with two
\* or more predecessors later in the list (cycle-free link sets: it ends).
RECURSIVE MeetsTwoLater(_)
MeetsTwoLater(w) ==
    IF w.index >= Len(w.ids) THEN FALSE
    ELSE \/ Cardinality(LaterPreds(w.ids, w.index + 1)) >= 2
         \/ MeetsTwoLater(SwapIteration(w))

\* C23 (amended): for every cycle-free link set on which the scan never
\* reaches a destination with two or more predecessors after it, the order
\* the swap loop ends with equals the order of the step-3 procedure.
SwapLoopIsProcedureSingly ==
    /\ sort.pc \in {"find", "done"}
    /\ CycleFree(sort.node_link_list)
    /\ ~MeetsTwoLater([ids |-> SeedList, index |-> 0,
                       conn |-> OrganizeLinks(sort.node_link_list, <<>>, <<>>).conn])
    => Keys(sort.ids) = ProcedureOrder(SeedList)

\* The swap loop has ended after swapping entries of a working list of three
\* destinations, none met with two predecessors after it.
SwapLoopWitness ==
    /\ sort.pc = "done"
    /\ CycleFree(sort.node_link_list)
    /\ Len(SeedList) >= 3
    /\ Keys(sort.ids) # Keys(SeedList)
    /\ ~MeetsTwoLater([ids |-> SeedList, index |-> 0,
                       conn |-> OrganizeLinks(sort.node_link_list, <<>>, <<>>).conn])

\* The destination nodes of a link list, and the position of the first link
\* that ends on a destination node.
Destinations(links) == {NodeOfPort(links[i][2]) : i \in 1..Len(links)}

FirstLink(links, node) ==
    CHOOSE i \in 1..Len(links) :
        /\ NodeOfPort(links[i][2]) = node
        /\ \A k \in 1..(i - 1) : NodeOfPort(links[k][2]) # node

\* Two destinations stand in the result in the order of their first links.
InDiscoveryOrder(links, order, a, b) ==
    IndexOf(order, a, 1) < IndexOf(order, b, 1) <=> FirstLink(links, a) < FirstLink(links, b)

\* C24 (as stated): ties are broken by link-discovery order: two destination
\* nodes with no directed path between them stand in the result in the order
\* in which their first incoming links appear in the link list.
TiesByDiscovery ==
    sort.pc = "done" /\ CycleFree(sort.node_link_list) =>
        \A a, b \in Destinations(sort.node_link_list) :
            /\ a # b
            /\ <<a, b>> \notin Paths(Edges(sort.node_link_list), Edges(sort.node_link_list))
            /\ <<b, a>> \notin Paths(Edges(sort.node_link_list), Edges(sort.node_link_list))
            => InDiscoveryOrder(sort.node_link_list, Keys(sort.conn), a, b)

\* Every destination that feeds another destination was discovered before it.
DiscoveredBeforeUse(links) ==
    \A e \in Edges(links) :
        e[1] \in Destinations(links) => FirstLink(links, e[1]) < FirstLink(links, e[2])

\* C24 (amended): on a cycle-free link set in which every destination that
\* feeds another destination was discovered before it, the destinations stand
\* in the result in first-link-discovery order, unrelated ones included.
TiesByDiscoveryUnswapped ==
    /\ sort.pc = "done"
    /\ CycleFree(sort.node_link_list)
    /\ DiscoveredBeforeUse(sort.node_link_list)
    => \A a, b \in Destinations(sort.node_link_list) :
           a # b => InDiscoveryOrder(sort.node_link_list, Keys(sort.conn), a, b)

\* The sort has returned on such a link set with three destinations, two of
\* them with no path between them.
TiesWitness ==
    /\ sort.pc = "done"
    /\ CycleFree(sort.node_link_list)
    /\ DiscoveredBeforeUse(sort.node_link_list)
    /\ Cardinality(Destinations(sort.node_link_list)) >= 3
    /\ \E a, b \in Destinations(sort.node_link_list) :
          /\ a # b
          /\ <<a, b>> \notin Paths(Edges(sort.node_link_list), Edges(sort.node_link_list))
          /\ <<b, a>> \notin Paths(Edges(sort.node_link_list), Edges(sort.node_link_list))
    /\ \E e \in Edges(sort.node_link_list) : e[1] \in Destinations(sort.node_link_list)

\* C25: a binding can be replaced by explicit removal.  A Delete leaves no
\* link with an endpoint on a node that left the node list, and a removed
\* link leaves its input port without link; a type-compatible attempt to an
\* input port without link is accepted and is then the only link there.
ReplaceByRemoval ==
    /\ [][last'.op = "key_del"
           => /\ \A i \in 1..Len(_node_link_list') :
                    /\ NodeOfPort(_node_link_list'[i][1]) \in SeqToSet(_node_list')
                    /\ NodeOfPort(_node_link_list'[i][2]) \in SeqToSet(_node_list')
              /\ \A i \in 1..Len(_node_link_list) :
                    _node_link_list[i] \notin SeqToSet(_node_link_list')
                    => \A k \in 1..Len(_node_link_list') :
                           _node_link_list'[k][2] # _node_link_list[i][2]]_vars
    /\ [][last'.op = "link" /\ last'.a = <<"input_free">>
           => \E source \in CanvasOutputs, destination \in CanvasInputs :
                 /\ TypeOfPort(source) = TypeOfPort(destination)
                 /\ _node_link_list' = Append(_node_link_list, <<source, destination>>)
                 /\ \A k \in 1..Len(_node_link_list) :
                        _node_link_list[k][2] # destination]_vars

\* The default view's link ended at the chart's input; its source node has
\* been deleted, and a link from a node added since has been accepted there.
ReplaceByRemovalWitness ==
    /\ _atlas_config.enabled /\ _atlas_config.auto_load
    /\ last.op = "link" /\ last.a = <<"input_free">>
    /\ <<1, "DefaultDataset">> \notin SeqToSet(_node_list)
    /\ Len(_node_link_list) = 1
    /\ _node_link_list[1][2] = <<2, "LineChart", "TimeSeries", "Input01">>
    /\ _node_link_list[1][1][1] = 3

\* C26: File > Import opens the import dialog exactly when the node list is
\* empty, also after New Dashboard or after every node has been deleted.
ImportWhenEmpty ==
    last.op = "import_menu" =>
        (last.b = <<"atlas_file_import">> <=> _node_list = <<>>)

\* The items of a sort result list every destination of the link list once,
\* with exactly its inbound links.
ListsDestinationsOnce(items, links) ==
    \A d \in Destinations(links) :
        /\ Cardinality({k \in 1..Len(items) : items[k][1] = d}) = 1
        /\ ConnectionList(items, d) = InboundLinks(links, d)

\* C27: on every link set without a directed cycle both loops of
\* _sort_node_graph terminate, and the result lists each destination node
\* exactly once, with exactly its own inbound links.
SortReturnsOnDags ==
    CycleFree(_node_link_list) =>
        LET c == SortCall(_node_list, _node_link_list)
        IN  c.returns /\ ListsDestinationsOnce(c.items, _node_link_list)

\* For reference: the same for the call followed step by step on the
\* cycle-free graphs whose node list holds every endpoint of a link.
SortReturnsOnListedDags ==
    /\ sort.iterations <= SwapBound(sort.ids)
    /\ SortCall(sort.node_list, sort.node_link_list).returns
    /\ sort.pc = "done" => ListsDestinationsOnce(sort.conn, sort.node_link_list)

\* The payloads a cycle of update_node_info stores when it runs through the
\* whole of a node list undisturbed, and the payload it stores for one node.
RECURSIVE RunCycle(_, _, _)
RunCycle(order, conn, data_dict) ==
    IF order = <<>> THEN data_dict
    ELSE LET node_id_name == Head(order)
             r == NodeUpdate(node_id_name[2], ConnectionList(conn, node_id_name),
                             data_dict)
         IN  RunCycle(Tail(order), conn,
                      NodeDataAfter(data_dict, node_id_name,
                                    UpdateRaises(node_id_name), r.data))

NextPayload(node) ==
    DictGet(RunCycle(VisitOrder(_node_list), _node_connection_dict, node_data_dict), node)

\* The nodes a link path leads to from a node.
Downstream(links, node) ==
    {p[2] : p \in {q \in Paths(Edges(links), Edges(links)) : q[1] = node}}

\* C28: deleting one node leaves every remaining node that is not downstream
\* of it with the payload it would have produced in the next cycle without
\* the deletion, remaining nodes of the deleted node's kind included.
DeletionLeavesPayloads ==
    [][\A n \in SeqToSet(_node_list) :
          (last'.op = "key_del" /\ _node_list' = ListRemove(_node_list, n)) =>
              \A m \in SeqToSet(_node_list') :
                  m \notin Downstream(_node_link_list, n) =>
                      NextPayload(m)' = NextPayload(m)]_vars


\* close() has been called for a node: every handler that takes a node out
\* of the node list calls close() for it first, and main()'s cleanup calls it
\* for every node of the list.
IsClosed(node) ==
    \/ node[1] \in used_ids /\ node \notin SeqToSet(_node_list)
    \/ phase \in {"closing", "terminated"}

\* C29: a node's update is never invoked after close() has been called for
\* the node (by a deletion, New Dashboard or main()'s cleanup), in either
\* refresh mode.
NoUpdateAfterClose ==
    [][Len(cycle_log') = Len(cycle_log) + 1 =>
          ~IsClosed(cycle_log'[Len(cycle_log')])]_vars

\* For reference: in the sync mode no update follows main()'s cleanup.
NoSyncUpdateAfterCleanup ==
    [][(~mode_async /\ phase \in {"closing", "terminated"}) =>
          cycle_log' = cycle_log]_vars

\* C30: in the async mode, once set_terminate_flag has set the flag, no
\* further cycle begins after the one under way, and async_main returns in
\* the end (every update of the model returns or raises).
TerminateEndsLoop ==
    /\ [][(mode_async /\ _terminate_flag) =>
             ~(upd.pc = "idle" /\ upd'.pc = "run")]_vars
    /\ ((mode_async /\ _terminate_flag) ~> (upd.pc = "returned"))

\* async_main has returned after a last cycle that updated nodes.
TerminateWitness ==
    /\ mode_async
    /\ _terminate_flag
    /\ upd.pc = "returned"
    /\ cycle_log # <<>>
====
